---------------------------- MODULE Spec2Model ----------------------------
(***************************************************************************)
(* A model of the QUIC tag codec and tag negotiation                       *)
(* (src/quic/core/quic_tag.cc) and of the QBONE session base               *)
(* (src/quic/qbone/qbone_session_base.h).                                  *)
(*                                                                         *)
(* Representation.  TLC's integers are 32-bit signed, so a uint32_t        *)
(* (QuicTag) is the tuple <<b0, b1, b2, b3>> of its four bytes, b0 the     *)
(* least significant (bits 0..7), b3 the most significant (bits 24..31).   *)
(* A char and a byte of a string are the value 0..255 of their object      *)
(* representation; a string is the sequence of its bytes.  Whether plain   *)
(* char is signed is a property of the build (signed on x86, unsigned on   *)
(* ARM Linux), chosen by ChooseBuild.  The host is taken to be             *)
(* little-endian (the in-memory bytes of a uint32_t are b0, b1, b2, b3),   *)
(* and isprint and the whitespace test are those of the "C" locale.        *)
(***************************************************************************)
EXTENDS Integers, Sequences, FiniteSets

VARIABLES
  charSigned,   \* the build: plain char is a signed type
  pc,           \* which call of the tag API has been made
  tag_chars,    \* MakeQuicTag's arguments <<a, b, c, d>>
  tag,          \* a QuicTag: MakeQuicTag's result, QuicTagToString's argument
  tag_string,   \* QuicTagToString's result, ParseQuicTag's argument
  parsed_tag,   \* ParseQuicTag's result
  tags_string,  \* ParseQuicTagVector's argument
  tag_vector,   \* ParseQuicTagVector's result
  our_tags,     \* FindMutualQuicTag's arguments and results
  their_tags,
  find_result,
  crypto_stream_,            \* QboneSessionBase's fields
  num_ephemeral_packets_,
  num_message_packets_,
  num_streamed_packets_,
  num_fallback_to_stream_,
  in_streams,       \* the incoming non-control streams and what each has read
  aborted,          \* a fatal check has ended the process
  initialize_called,
  datagrams,        \* the transport: the messages accepted for sending
  out_streams,      \* the transport: the outgoing streams opened
  wire,             \* the peer: the bytes it has sent on each incoming stream
  from_peer,        \* the arguments of the ProcessPacketFromPeer calls
  from_network,     \* the arguments of the ProcessPacketFromNetwork calls
  last_call         \* the last call on the session, with the state before it

codecVars == <<charSigned, pc, tag_chars, tag, tag_string, parsed_tag,
               tags_string, tag_vector, our_tags, their_tags, find_result>>

sessionVars == <<crypto_stream_, num_ephemeral_packets_, num_message_packets_,
                 num_streamed_packets_, num_fallback_to_stream_, in_streams,
                 aborted, initialize_called, datagrams, out_streams, wire,
                 from_peer, from_network, last_call>>

vars == <<codecVars, sessionVars>>

NoValue == "NoValue"

-----------------------------------------------------------------------------
(* Bounds and input domains.                                               *)

MaxTagText == 6
MaxListText == 5
MaxTags == 3
MaxSends == 2
MaxMessages == 1
MaxStreamBytes == 2

\* The bytes tags are built from: NUL, 0x01, space, 'A', '~', DEL, 0x80, 0xFF.
TagBytes == {0, 1, 32, 65, 126, 127, 128, 255}

\* The bytes of the texts handed to ParseQuicTag: space, 'A', 'B', 0xFF.
TextBytes == {32, 65, 66, 255}

\* The bytes of the texts handed to ParseQuicTagVector: space, ',', 'A', 'B'.
ListBytes == {32, 44, 65, 66}

SeqsUpTo(S, n) == UNION {[1..k -> S] : k \in 0..n}

Word32s == {<<b0, b1, b2, b3>> : b0 \in TagBytes, b1 \in TagBytes,
                                 b2 \in TagBytes, b3 \in TagBytes}

TagTexts == SeqsUpTo(TextBytes, MaxTagText)

\* "QBIC,ABCD" and " QBIC , ABCD "
ExampleList == <<81, 66, 73, 67, 44, 65, 66, 67, 68>>
ExampleListSpaced == <<32, 81, 66, 73, 67, 32, 44, 32, 65, 66, 67, 68, 32>>

ListTexts == SeqsUpTo(ListBytes, MaxListText) \cup {ExampleList, ExampleListSpaced}

\* The tags negotiated over: "ABCD", "QBIC", "X509".
NegotiationTags == {<<65, 66, 67, 68>>, <<81, 66, 73, 67>>, <<88, 53, 48, 57>>}

TagLists == SeqsUpTo(NegotiationTags, MaxTags)

-----------------------------------------------------------------------------
(* 32-bit arithmetic on byte tuples.                                       *)

Zero32 == <<0, 0, 0, 0>>

RECURSIVE ByteOr(_, _)
ByteOr(x, y) ==
  IF x = 0 THEN y
  ELSE IF y = 0 THEN x
  ELSE (IF x % 2 = 1 \/ y % 2 = 1 THEN 1 ELSE 0) + 2 * ByteOr(x \div 2, y \div 2)

\* v | w
Or32(v, w) == <<ByteOr(v[1], w[1]), ByteOr(v[2], w[2]),
                ByteOr(v[3], w[3]), ByteOr(v[4], w[4])>>

\* w << 8, w << 16, w << 24 and w >> 8 on uint32_t: whole bytes move, the
\* bytes shifted out are lost.
Shl8(w) == <<0, w[1], w[2], w[3]>>
Shl16(w) == <<0, 0, w[1], w[2]>>
Shl24(w) == <<0, 0, 0, w[1]>>
Shr8(w) == <<w[2], w[3], w[4], 0>>

\* static_cast<uint32_t>(c) for a plain char c: a signed char with its high
\* bit set is negative and converts modulo 2^32 (sign extension).
CharToUint32(c) ==
  IF charSigned /\ c >= 128 THEN <<c, 255, 255, 255>> ELSE <<c, 0, 0, 0>>

\* The conversion of an unsigned char to uint32_t: zero extension.
UnsignedCharToUint32(c) == <<c, 0, 0, 0>>

-----------------------------------------------------------------------------
(* Text primitives.                                                        *)

IsPrint(c) == c \in 32..126

IsSpace(c) == c \in {9, 10, 11, 12, 13, 32}

RECURSIVE RemoveLeadingAndTrailingWhitespace(_)
RemoveLeadingAndTrailingWhitespace(s) ==
  IF s = <<>> THEN s
  ELSE IF IsSpace(Head(s)) THEN RemoveLeadingAndTrailingWhitespace(Tail(s))
  ELSE IF IsSpace(s[Len(s)])
    THEN RemoveLeadingAndTrailingWhitespace(SubSeq(s, 1, Len(s) - 1))
  ELSE s

HexDigit(n) == IF n < 10 THEN 48 + n ELSE 87 + n

RECURSIVE HexEncode(_)
HexEncode(bytes) ==
  IF bytes = <<>> THEN <<>>
  ELSE <<HexDigit(Head(bytes) \div 16), HexDigit(Head(bytes) % 16)>>
       \o HexEncode(Tail(bytes))

\* The value of a hex digit; a character that is none counts as 0.
HexValue(c) ==
  IF c \in 48..57 THEN c - 48
  ELSE IF c \in 97..102 THEN c - 87
  ELSE IF c \in 65..70 THEN c - 55
  ELSE 0

RECURSIVE HexDecode(_)
HexDecode(s) ==
  IF Len(s) < 2 THEN <<>>
  ELSE <<16 * HexValue(s[1]) + HexValue(s[2])>> \o HexDecode(SubSeq(s, 3, Len(s)))

\* The pieces of s between the delimiters: one more piece than delimiters.
RECURSIVE Split(_, _)
Split(s, delim) ==
  IF \A i \in 1..Len(s) : s[i] # delim THEN <<s>>
  ELSE LET p == CHOOSE i \in 1..Len(s) :
                  s[i] = delim /\ \A j \in 1..(i - 1) : s[j] # delim
       IN <<SubSeq(s, 1, p - 1)>> \o Split(SubSeq(s, p + 1, Len(s)), delim)

-----------------------------------------------------------------------------
(* quic_tag.cc                                                             *)

\* sizeof tag, the length of chars[].
TagSize == 4

\* The loops of FindMutualQuicTag: the first (i, j), our index outermost.
RECURSIVE FindLoop(_, _, _, _)
FindLoop(our, their, i, j) ==
  IF i > Len(our) THEN [found |-> FALSE, i |-> 0, j |-> 0]
  ELSE IF j > Len(their) THEN FindLoop(our, their, i + 1, 1)
  ELSE IF our[i] = their[j] THEN [found |-> TRUE, i |-> i, j |-> j]
  ELSE FindLoop(our, their, i, j + 1)

\* The same with the loops exchanged: their index outermost.
RECURSIVE FindLoopTheirsFirst(_, _, _, _)
FindLoopTheirsFirst(our, their, i, j) ==
  IF j > Len(their) THEN [found |-> FALSE, i |-> 0, j |-> 0]
  ELSE IF i > Len(our) THEN FindLoopTheirsFirst(our, their, 1, j + 1)
  ELSE IF our[i] = their[j] THEN [found |-> TRUE, i |-> i, j |-> j]
  ELSE FindLoopTheirsFirst(our, their, i + 1, j)

FindMutualQuicTagTheirsFirst(our, their, out_result, out_index) ==
  LET r == FindLoopTheirsFirst(our, their, 1, 1)
  IN IF r.found
       THEN [ret |-> TRUE, out_result |-> our[r.i],
             out_index |-> IF out_index = <<>> THEN <<>> ELSE <<r.j - 1>>]
       ELSE [ret |-> FALSE, out_result |-> out_result, out_index |-> out_index]

\* out_result is the value behind the pointer before the call; out_index is
\* <<>> for a null pointer and <<v>> for a pointer to a size_t holding v.
\* Indices are 0-based as in the code.
FindMutualQuicTag(our, their, out_result, out_index) ==
  LET r == FindLoop(our, their, 1, 1)
  IN IF r.found
       THEN [ret |-> TRUE, out_result |-> our[r.i],
             out_index |-> IF out_index = <<>> THEN <<>> ELSE <<r.j - 1>>]
       ELSE [ret |-> FALSE, out_result |-> out_result, out_index |-> out_index]

\* The for loop of QuicTagToString from index i on (0-based), t the tag as
\* shifted so far and chars the characters stored so far.
RECURSIVE ToStringLoop(_, _, _)
ToStringLoop(t, i, chars) ==
  IF i >= TagSize THEN [ascii |-> TRUE, chars |-> chars]
  ELSE LET low == t[1]
           ch == IF (low = 0 \/ low = 255) /\ i = TagSize - 1 THEN 32 ELSE low
       IN IF ~IsPrint(ch) THEN [ascii |-> FALSE, chars |-> chars]
          ELSE ToStringLoop(Shr8(t), i + 1, Append(chars, ch))

\* The loop with the substitution made at every index.
RECURSIVE ToStringLoopAnyIndex(_, _, _)
ToStringLoopAnyIndex(t, i, chars) ==
  IF i >= TagSize THEN [ascii |-> TRUE, chars |-> chars]
  ELSE LET low == t[1]
           ch == IF low = 0 \/ low = 255 THEN 32 ELSE low
       IN IF ~IsPrint(ch) THEN [ascii |-> FALSE, chars |-> chars]
          ELSE ToStringLoopAnyIndex(Shr8(t), i + 1, Append(chars, ch))

QuicTagToStringAnyIndex(t) ==
  IF t = Zero32 THEN <<48>>
  ELSE LET r == ToStringLoopAnyIndex(t, 0, <<>>)
       IN IF r.ascii THEN r.chars ELSE HexEncode(t)

QuicTagToString(t) ==
  IF t = Zero32 THEN <<48>>
  ELSE LET r == ToStringLoop(t, 0, <<>>)
       IN IF r.ascii THEN r.chars ELSE HexEncode(t)

MakeQuicTag(a, b, c, d) ==
  Or32(Or32(Or32(CharToUint32(a), Shl8(CharToUint32(b))),
            Shl16(CharToUint32(c))),
       Shl24(CharToUint32(d)))

\* The loop of ParseQuicTag: the characters of s from the last to the first.
RECURSIVE ParseLoop(_, _)
ParseLoop(s, t) ==
  IF s = <<>> THEN t
  ELSE ParseLoop(SubSeq(s, 1, Len(s) - 1),
                 Or32(Shl8(t), UnsignedCharToUint32(s[Len(s)])))

\* The loop without the cast to unsigned char.
RECURSIVE ParseLoopPlainChar(_, _)
ParseLoopPlainChar(s, t) ==
  IF s = <<>> THEN t
  ELSE ParseLoopPlainChar(SubSeq(s, 1, Len(s) - 1),
                          Or32(Shl8(t), CharToUint32(s[Len(s)])))

\* The loop from the first character to the last.
RECURSIVE ParseLoopForward(_, _)
ParseLoopForward(s, t) ==
  IF s = <<>> THEN t
  ELSE ParseLoopForward(Tail(s), Or32(Shl8(t), UnsignedCharToUint32(Head(s))))

ParseQuicTagPlainChar(s) ==
  LET trimmed == RemoveLeadingAndTrailingWhitespace(s)
      bytes == IF Len(trimmed) = 8 THEN HexDecode(trimmed) ELSE trimmed
  IN ParseLoopPlainChar(bytes, Zero32)

ParseQuicTagForward(s) ==
  LET trimmed == RemoveLeadingAndTrailingWhitespace(s)
      bytes == IF Len(trimmed) = 8 THEN HexDecode(trimmed) ELSE trimmed
  IN ParseLoopForward(bytes, Zero32)

ParseQuicTag(s) ==
  LET trimmed == RemoveLeadingAndTrailingWhitespace(s)
      bytes == IF Len(trimmed) = 8 THEN HexDecode(trimmed) ELSE trimmed
  IN ParseLoop(bytes, Zero32)

RECURSIVE ParseEach(_)
ParseEach(pieces) ==
  IF pieces = <<>> THEN <<>>
  ELSE <<ParseQuicTag(Head(pieces))>> \o ParseEach(Tail(pieces))

\* ParseQuicTagVector without the test for an empty string.
ParseQuicTagVectorNoEmptyTest(s) ==
  ParseEach(Split(RemoveLeadingAndTrailingWhitespace(s), 44))

ParseQuicTagVector(s) ==
  LET trimmed == RemoveLeadingAndTrailingWhitespace(s)
  IN IF trimmed # <<>> THEN ParseEach(Split(trimmed, 44)) ELSE <<>>

-----------------------------------------------------------------------------
(* The calls of the tag API.                                               *)

CodecInit ==
  /\ charSigned = NoValue
  /\ pc = "build"
  /\ tag_chars = <<>>
  /\ tag = NoValue
  /\ tag_string = NoValue
  /\ parsed_tag = NoValue
  /\ tags_string = NoValue
  /\ tag_vector = NoValue
  /\ our_tags = NoValue
  /\ their_tags = NoValue
  /\ find_result = NoValue

\* The build decides whether plain char is signed.
ChooseBuild ==
  /\ pc = "build"
  /\ charSigned' \in BOOLEAN
  /\ pc' = "start"
  /\ UNCHANGED <<tag_chars, tag, tag_string, parsed_tag, tags_string,
                 tag_vector, our_tags, their_tags, find_result>>
  /\ UNCHANGED sessionVars

CallMakeQuicTag ==
  /\ pc = "start"
  /\ \E a \in TagBytes, b \in TagBytes, c \in TagBytes, d \in TagBytes :
       /\ tag_chars' = <<a, b, c, d>>
       /\ tag' = MakeQuicTag(a, b, c, d)
  /\ pc' = "made"
  /\ UNCHANGED <<charSigned, tag_string, parsed_tag, tags_string, tag_vector,
                 our_tags, their_tags, find_result>>
  /\ UNCHANGED sessionVars

\* QuicTagToString of any tag value.
CallQuicTagToString ==
  /\ pc = "start"
  /\ \E t \in Word32s :
       /\ tag' = t
       /\ tag_string' = QuicTagToString(t)
  /\ pc' = "shown"
  /\ UNCHANGED <<charSigned, tag_chars, parsed_tag, tags_string, tag_vector,
                 our_tags, their_tags, find_result>>
  /\ UNCHANGED sessionVars

\* QuicTagToString of the tag MakeQuicTag returned.
CallQuicTagToStringOfMade ==
  /\ pc = "made"
  /\ tag_string' = QuicTagToString(tag)
  /\ pc' = "shown"
  /\ UNCHANGED <<charSigned, tag_chars, tag, parsed_tag, tags_string,
                 tag_vector, our_tags, their_tags, find_result>>
  /\ UNCHANGED sessionVars

\* ParseQuicTag of a text.
CallParseQuicTag ==
  /\ pc = "start"
  /\ \E s \in TagTexts :
       /\ tag_string' = s
       /\ parsed_tag' = ParseQuicTag(s)
  /\ pc' = "parsed"
  /\ UNCHANGED <<charSigned, tag_chars, tag, tags_string, tag_vector,
                 our_tags, their_tags, find_result>>
  /\ UNCHANGED sessionVars

\* ParseQuicTag of the text QuicTagToString returned.
CallParseQuicTagOfShown ==
  /\ pc = "shown"
  /\ parsed_tag' = ParseQuicTag(tag_string)
  /\ pc' = "roundtrip"
  /\ UNCHANGED <<charSigned, tag_chars, tag, tag_string, tags_string,
                 tag_vector, our_tags, their_tags, find_result>>
  /\ UNCHANGED sessionVars

CallParseQuicTagVector ==
  /\ pc = "start"
  /\ \E s \in ListTexts :
       /\ tags_string' = s
       /\ tag_vector' = ParseQuicTagVector(s)
  /\ pc' = "list"
  /\ UNCHANGED <<charSigned, tag_chars, tag, tag_string, parsed_tag,
                 our_tags, their_tags, find_result>>
  /\ UNCHANGED sessionVars

\* prior is what *out_result held before the call; want_index tells whether
\* out_index is a pointer or nullptr.
CallFindMutualQuicTag ==
  /\ pc = "start"
  /\ \E our \in TagLists, their \in TagLists,
        prior \in {Zero32, <<81, 66, 73, 67>>}, want_index \in BOOLEAN :
       /\ our_tags' = our
       /\ their_tags' = their
       /\ find_result' =
            [prior |-> prior, want_index |-> want_index,
             call |-> FindMutualQuicTag(our, their, prior,
                                        IF want_index THEN <<0>> ELSE <<>>)]
  /\ pc' = "found"
  /\ UNCHANGED <<charSigned, tag_chars, tag, tag_string, parsed_tag,
                 tags_string, tag_vector>>
  /\ UNCHANGED sessionVars

CodecNext ==
  \/ ChooseBuild
  \/ CallMakeQuicTag
  \/ CallQuicTagToString
  \/ CallQuicTagToStringOfMade
  \/ CallParseQuicTag
  \/ CallParseQuicTagOfShown
  \/ CallParseQuicTagVector
  \/ CallFindMutualQuicTag

-----------------------------------------------------------------------------
(* qbone_session_base.h.  The header declares the session's fields and     *)
(* methods; the bodies of the methods follow the session's specification.  *)

\* The packets sent and the messages received, and the bytes of a stream.
Packets == {"P1", "P2"}
StreamBytes == {"P", "I"}

\* The ids of the incoming streams that are not the crypto stream.
StreamIds == {1, 2}

NullStream == "nullptr"

\* What the CreateCryptoStream factory returns.
CreateCryptoStream == "crypto_stream"

\* The session as constructed, with crypto_stream_ created at once.
SessionInitEager ==
  /\ crypto_stream_ = CreateCryptoStream
  /\ num_ephemeral_packets_ = 0
  /\ num_message_packets_ = 0
  /\ num_streamed_packets_ = 0
  /\ num_fallback_to_stream_ = 0
  /\ in_streams = [id \in StreamIds |-> [state |-> "idle", buffer |-> <<>>]]
  /\ aborted = FALSE
  /\ initialize_called = FALSE
  /\ datagrams = <<>>
  /\ out_streams = <<>>
  /\ wire = [id \in StreamIds |-> <<>>]
  /\ from_peer = <<>>
  /\ from_network = <<>>
  /\ last_call = [op |-> "none"]

\* The session as constructed: the member initializers of the header.
SessionInit ==
  /\ crypto_stream_ = NullStream
  /\ num_ephemeral_packets_ = 0
  /\ num_message_packets_ = 0
  /\ num_streamed_packets_ = 0
  /\ num_fallback_to_stream_ = 0
  /\ in_streams = [id \in StreamIds |-> [state |-> "idle", buffer |-> <<>>]]
  /\ aborted = FALSE
  /\ initialize_called = FALSE
  /\ datagrams = <<>>
  /\ out_streams = <<>>
  /\ wire = [id \in StreamIds |-> <<>>]
  /\ from_peer = <<>>
  /\ from_network = <<>>
  /\ last_call = [op |-> "none"]

\* The session's fields and what it has handed on, before a call.
Snapshot ==
  [crypto_stream_ |-> crypto_stream_,
   num_ephemeral_packets_ |-> num_ephemeral_packets_,
   num_message_packets_ |-> num_message_packets_,
   num_streamed_packets_ |-> num_streamed_packets_,
   num_fallback_to_stream_ |-> num_fallback_to_stream_,
   datagrams |-> datagrams,
   out_streams |-> out_streams,
   from_peer |-> from_peer,
   from_network |-> from_network]

\* Initialize(): called once; the session takes the stream the factory makes.
Initialize ==
  /\ ~aborted
  /\ ~initialize_called
  /\ crypto_stream_' = CreateCryptoStream
  /\ initialize_called' = TRUE
  /\ last_call' = [op |-> "Initialize", pre |-> Snapshot]
  /\ UNCHANGED <<num_ephemeral_packets_, num_message_packets_,
                 num_streamed_packets_, num_fallback_to_stream_, in_streams,
                 aborted, datagrams, out_streams, wire, from_peer,
                 from_network>>
  /\ UNCHANGED codecVars

\* GetCryptoStream() / GetMutableCryptoStream(): the stream, and a fatal
\* failure of the precondition when there is none yet.
GetCryptoStream ==
  /\ ~aborted
  /\ IF crypto_stream_ = NullStream
       THEN /\ aborted' = TRUE
            /\ last_call' = [op |-> "GetCryptoStream", pre |-> Snapshot,
                             ret |-> "none"]
       ELSE /\ aborted' = FALSE
            /\ last_call' = [op |-> "GetCryptoStream", pre |-> Snapshot,
                             ret |-> crypto_stream_]
  /\ UNCHANGED <<crypto_stream_, num_ephemeral_packets_, num_message_packets_,
                 num_streamed_packets_, num_fallback_to_stream_, in_streams,
                 initialize_called, datagrams, out_streams, wire, from_peer,
                 from_network>>
  /\ UNCHANGED codecVars

\* What a call of SendPacketToPeer hands back to its caller, sent telling
\* whether the packet went out: the method is declared void.
SendPacketToPeerReturn(sent) == "void"

\* The call SendPacketToPeer(packet) with the transport's two answers:
\* whether it accepts the packet as a datagram and, when it does not, whether
\* it opens an outgoing stream.
SendPacketToPeerBothPaths(packet, datagram_ok, stream_ok) ==
  /\ datagrams' = IF datagram_ok THEN Append(datagrams, packet) ELSE datagrams
  /\ out_streams' = IF stream_ok
                      THEN Append(out_streams, [data |-> packet, fin |-> TRUE])
                      ELSE out_streams
  /\ num_fallback_to_stream_' =
       IF stream_ok THEN num_fallback_to_stream_ + 1 ELSE num_fallback_to_stream_
  /\ last_call' = [op |-> "SendPacketToPeer", pre |-> Snapshot,
                   packet |-> packet, datagram_ok |-> datagram_ok,
                   stream_ok |-> stream_ok,
                   ret |-> SendPacketToPeerReturn(datagram_ok \/ stream_ok)]

SendPacketToPeer(packet, datagram_ok, stream_ok) ==
  /\ IF datagram_ok
       THEN /\ datagrams' = Append(datagrams, packet)
            /\ UNCHANGED <<out_streams, num_fallback_to_stream_>>
       ELSE IF stream_ok
         THEN /\ out_streams' =
                   Append(out_streams, [data |-> packet, fin |-> TRUE])
              /\ num_fallback_to_stream_' = num_fallback_to_stream_ + 1
              /\ UNCHANGED datagrams
         ELSE UNCHANGED <<datagrams, out_streams, num_fallback_to_stream_>>
  /\ last_call' = [op |-> "SendPacketToPeer", pre |-> Snapshot,
                   packet |-> packet, datagram_ok |-> datagram_ok,
                   stream_ok |-> stream_ok,
                   ret |-> SendPacketToPeerReturn(datagram_ok \/ stream_ok)]

\* A packet from the network is sent to the peer.
CallSendPacketToPeer ==
  /\ ~aborted
  /\ initialize_called
  /\ Len(datagrams) + Len(out_streams) < MaxSends
  /\ \E packet \in Packets, datagram_ok \in BOOLEAN, stream_ok \in BOOLEAN :
       SendPacketToPeer(packet, datagram_ok, stream_ok)
  /\ UNCHANGED <<crypto_stream_, num_ephemeral_packets_, num_message_packets_,
                 num_streamed_packets_, in_streams, aborted, initialize_called,
                 wire, from_peer, from_network>>
  /\ UNCHANGED codecVars

\* OnMessageReceived handing the message to the other hook.
OnMessageReceivedToNetwork(message) ==
  /\ num_message_packets_' = num_message_packets_ + 1
  /\ from_network' = Append(from_network, message)
  /\ last_call' = [op |-> "OnMessageReceived", pre |-> Snapshot,
                   message |-> message]
  /\ UNCHANGED from_peer

\* OnMessageReceived(message): a datagram has arrived.
OnMessageReceived(message) ==
  /\ num_message_packets_' = num_message_packets_ + 1
  /\ from_peer' = Append(from_peer, message)
  /\ last_call' = [op |-> "OnMessageReceived", pre |-> Snapshot,
                   message |-> message]
  /\ UNCHANGED from_network

CallOnMessageReceived ==
  /\ ~aborted
  /\ initialize_called
  /\ num_message_packets_ < MaxMessages
  /\ \E message \in Packets : OnMessageReceived(message)
  /\ UNCHANGED <<crypto_stream_, num_ephemeral_packets_, num_streamed_packets_,
                 num_fallback_to_stream_, in_streams, aborted,
                 initialize_called, datagrams, out_streams, wire>>
  /\ UNCHANGED codecVars

\* Bytes arrive on a non-control stream, opening it when it is new: the
\* session adds them to what it has read of the stream.
OnStreamData ==
  /\ ~aborted
  /\ initialize_called
  /\ \E id \in StreamIds, byte \in StreamBytes :
       /\ in_streams[id].state \in {"idle", "open"}
       /\ Len(wire[id]) < MaxStreamBytes
       /\ wire' = [wire EXCEPT ![id] = Append(@, byte)]
       /\ in_streams' = [in_streams EXCEPT
                           ![id] = [state |-> "open",
                                    buffer |-> Append(@.buffer, byte)]]
       /\ last_call' = [op |-> "OnStreamData", pre |-> Snapshot, id |-> id]
  /\ UNCHANGED <<crypto_stream_, num_ephemeral_packets_, num_message_packets_,
                 num_streamed_packets_, num_fallback_to_stream_, aborted,
                 initialize_called, datagrams, out_streams, from_peer,
                 from_network>>
  /\ UNCHANGED codecVars

\* A non-control stream ends: the session counts the payload, hands what it
\* has read to ProcessPacketFromNetwork and discards it.
OnStreamFin ==
  /\ ~aborted
  /\ initialize_called
  /\ \E id \in StreamIds :
       /\ in_streams[id].state = "open"
       /\ num_ephemeral_packets_' = num_ephemeral_packets_ + 1
       /\ from_network' = Append(from_network, in_streams[id].buffer)
       /\ in_streams' = [in_streams EXCEPT
                           ![id] = [state |-> "closed", buffer |-> <<>>]]
       /\ last_call' = [op |-> "OnStreamFin", pre |-> Snapshot, id |-> id]
  /\ UNCHANGED <<crypto_stream_, num_message_packets_, num_streamed_packets_,
                 num_fallback_to_stream_, aborted, initialize_called,
                 datagrams, out_streams, wire, from_peer>>
  /\ UNCHANGED codecVars

SessionNext ==
  \/ Initialize
  \/ GetCryptoStream
  \/ CallSendPacketToPeer
  \/ CallOnMessageReceived
  \/ OnStreamData
  \/ OnStreamFin

Init == CodecInit /\ SessionInit

Next == CodecNext

Spec == Init /\ [][Next]_vars

\* The session alone.
SessionSpec == Init /\ [][SessionNext]_vars

-----------------------------------------------------------------------------
(* The properties of the tag codec and of the negotiation.                 *)

MinOf(S) == CHOOSE x \in S : \A y \in S : x <= y
MaxOf(S) == CHOOSE x \in S : \A y \in S : x >= y

Count(list, x) == Cardinality({k \in 1..Len(list) : list[k] = x})

\* list holds the elements of other, each as often, in some order.
IsPermutation(list, other) ==
  /\ Len(list) = Len(other)
  /\ \A x \in NegotiationTags : Count(list, x) = Count(other, x)

\* The indices of our_tags whose tag occurs somewhere in their_tags.
CommonIndices == {i \in 1..Len(our_tags) :
                    \E j \in 1..Len(their_tags) : our_tags[i] = their_tags[j]}

\* C1: FindMutualQuicTag returns ours[i] and j, i the least index of our_tags
\* whose tag occurs in their_tags and j the least index of their_tags holding
\* that tag (0-based, stored when out_index is not null); it returns false
\* exactly when the lists share no tag; and no reordering of their_tags
\* changes the tag chosen.
C1_MutualTagByOurOrder ==
  pc = "found" =>
    LET call == find_result.call
    IN /\ call.ret = (CommonIndices # {})
       /\ CommonIndices # {} =>
            LET i == MinOf(CommonIndices)
                j == MinOf({k \in 1..Len(their_tags) : their_tags[k] = our_tags[i]})
            IN /\ call.out_result = our_tags[i]
               /\ find_result.want_index => call.out_index = <<j - 1>>
       /\ \A other \in TagLists :
            IsPermutation(other, their_tags) =>
              LET again == FindMutualQuicTag(our_tags, other, find_result.prior, <<>>)
              IN again.ret = call.ret /\ again.out_result = call.out_result

\* our = [ABCD, QBIC], theirs = [QBIC, ABCD]: ABCD is chosen, at peer index 1.
C1_Witness ==
  /\ pc = "found"
  /\ our_tags = <<(<<65, 66, 67, 68>>), (<<81, 66, 73, 67>>)>>
  /\ their_tags = <<(<<81, 66, 73, 67>>), (<<65, 66, 67, 68>>)>>
  /\ find_result.call.ret
  /\ find_result.call.out_result = <<65, 66, 67, 68>>
  /\ find_result.call.out_index = <<1>>

\* C2: byte k of MakeQuicTag(b0, b1, b2, b3) is bk, for every four bytes.
C2_MakeTagKeepsBytes ==
  pc = "made" => \A k \in 1..4 : tag[k] = tag_chars[k]

AllPrintable(t) == \A k \in 1..4 : IsPrint(t[k])

\* C3 as stated: ParseQuicTag(QuicTagToString(t)) = t for every tag whose four
\* bytes are printable ASCII, a space in any position included.
C3_RoundTripAllPrintable ==
  (pc = "roundtrip" /\ AllPrintable(tag)) => parsed_tag = tag

\* C3 as amended: ParseQuicTag(QuicTagToString(t)) = t for every tag whose
\* four bytes are printable ASCII and whose byte 0 and byte 3 are not spaces.
C3_RoundTripNoEdgeSpace ==
  (pc = "roundtrip" /\ AllPrintable(tag) /\ tag[1] # 32 /\ tag[4] # 32)
    => parsed_tag = tag

\* A round trip of a printable tag with a space inside and none at the ends.
C3_Witness ==
  /\ pc = "roundtrip"
  /\ AllPrintable(tag)
  /\ tag[1] # 32 /\ tag[4] # 32 /\ tag[2] = 32
  /\ tag[1] # tag[4]
  /\ parsed_tag = tag

LowerHex == <<48, 49, 50, 51, 52, 53, 54, 55, 56, 57, 97, 98, 99, 100, 101, 102>>

\* Eight lowercase hex characters for the bytes 0..3 of t, in that order.
HexText(t) == [n \in 1..8 |->
                IF n % 2 = 1 THEN LowerHex[(t[(n + 1) \div 2] \div 16) + 1]
                ELSE LowerHex[(t[n \div 2] % 16) + 1]]

\* C9: QuicTagToString gives "0" for tag 0; the four characters of bytes 0..3
\* (a 0x00 or 0xFF byte 3 shown as a space) when bytes 0..2 are printable and
\* byte 3 is printable, 0x00 or 0xFF; and in every other case the eight
\* lowercase hex characters of the unsubstituted bytes 0..3.
C9_DisplayStringCases ==
  pc = "shown" =>
    tag_string =
      IF tag = Zero32 THEN <<48>>
      ELSE IF /\ IsPrint(tag[1]) /\ IsPrint(tag[2]) /\ IsPrint(tag[3])
              /\ (IsPrint(tag[4]) \/ tag[4] \in {0, 255})
        THEN <<tag[1], tag[2], tag[3], IF tag[4] \in {0, 255} THEN 32 ELSE tag[4]>>
      ELSE HexText(tag)

\* A tag with a NUL inside: rendered in hex, the NUL unsubstituted.
C9_Witness ==
  /\ pc = "shown"
  /\ tag = <<65, 0, 65, 255>>
  /\ tag_string = <<52, 49, 48, 48, 52, 49, 102, 102>>

\* The text without its leading and trailing whitespace: from its first to
\* its last byte that is no whitespace.
Trimmed(s) ==
  LET keep == {i \in 1..Len(s) : ~IsSpace(s[i])}
  IN IF keep = {} THEN <<>> ELSE SubSeq(s, MinOf(keep), MaxOf(keep))

Commas(s) == {i \in 1..Len(s) : s[i] = 44}

Piece(s, n) ==
  LET from == IF n = 1 THEN 1
              ELSE 1 + CHOOSE i \in Commas(s) :
                         Cardinality({c \in Commas(s) : c < i}) = n - 2
      to == IF n = Cardinality(Commas(s)) + 1 THEN Len(s)
            ELSE (CHOOSE i \in Commas(s) :
                    Cardinality({c \in Commas(s) : c < i}) = n - 1) - 1
  IN SubSeq(s, from, to)

\* C8: ParseQuicTagVector gives the empty list for an empty or all-whitespace
\* text; otherwise, for a text with k commas, k + 1 tags, the n-th of them
\* ParseQuicTag of the n-th comma-separated piece of the text.
C8_TagListPieces ==
  pc = "list" =>
    IF \A i \in 1..Len(tags_string) : IsSpace(tags_string[i])
      THEN tag_vector = <<>>
      ELSE /\ Len(tag_vector) = Cardinality(Commas(tags_string)) + 1
           /\ \A n \in 1..Len(tag_vector) :
                tag_vector[n] = ParseQuicTag(Piece(tags_string, n))

\* " QBIC , ABCD " gives [QBIC, ABCD].
C8_Witness ==
  /\ pc = "list"
  /\ tags_string = ExampleListSpaced
  /\ tag_vector = <<(<<81, 66, 73, 67>>), (<<65, 66, 67, 68>>)>>

-----------------------------------------------------------------------------
(* The properties of the session.                                          *)

C5_FailureReturned ==
  (/\ last_call.op = "SendPacketToPeer"
   /\ ~last_call.datagram_ok
   /\ ~last_call.stream_ok) => last_call.ret = "false"

\* C6: the crypto stream exists exactly when Initialize has been called, it
\* is the one the factory made, and a query of it returns it after
\* Initialize and ends in a fatal failure before.
C6_CryptoStreamIffInitialized ==
  /\ (crypto_stream_ # NullStream) <=> initialize_called
  /\ initialize_called => crypto_stream_ = CreateCryptoStream
  /\ last_call.op = "GetCryptoStream" =>
       IF initialize_called
         THEN ~aborted /\ last_call.ret = CreateCryptoStream
         ELSE aborted /\ last_call.ret = "none"
  /\ aborted => last_call.op = "GetCryptoStream" /\ ~initialize_called

\* Initialize has been called, traffic has flowed, and a query returns the
\* stream.
C6_Witness ==
  /\ initialize_called
  /\ crypto_stream_ = CreateCryptoStream
  /\ last_call.op = "GetCryptoStream"
  /\ last_call.ret = CreateCryptoStream
  /\ num_message_packets_ > 0

\* The counters and hooks a call left alone.
SameCounters(pre) ==
  /\ num_streamed_packets_ = pre.num_streamed_packets_
  /\ num_fallback_to_stream_ = pre.num_fallback_to_stream_

=============================================================================
